---- MODULE Spec2Model ----
(***************************************************************************)
(* Model of the ingestion endpoint put_first_translation/lambda_function.py *)
(* (handler and HTDatabase) over a small relational store made of the      *)
(* tables `translations` and `HighTimes`.                                  *)
(*                                                                         *)
(* Strings that the code hashes, encodes or compares are sequences of      *)
(* character codes, so that the binary digest, its hex form and the        *)
(* serialised content are different values unless the code makes them      *)
(* equal.  One invocation is a process whose steps are the statements of   *)
(* handler that touch the outside world.                                   *)
(***************************************************************************)
EXTENDS Integers, Sequences, FiniteSets, TLC

VARIABLES pc, req, cnx, response, atEntry, passedOnEmpty, ingested, translations,
          HighTimes,
          session, remember, httpRequest, httpReply, flashed

\* the state of the ingestion endpoint and of the store
handlerVars == <<pc, req, cnx, response, atEntry, passedOnEmpty, ingested,
                 translations, HighTimes>>

\* the state of one browser's conversation with the dashboard
dashVars == <<session, remember, httpRequest, httpReply, flashed>>

vars == <<pc, req, cnx, response, atEntry, passedOnEmpty, ingested, translations,
          HighTimes, session, remember, httpRequest, httpReply, flashed>>

-----------------------------------------------------------------------------
(* Bounds *)

\* bytes of a digest (32 in hashlib.sha256)
DigestLen == 2

\* the invocation slots of the host
Procs == {"h1"}

-----------------------------------------------------------------------------
(* Values *)

\* Python's None, distinct from every string (character codes are >= 0)
None == <<-1>>

\* "A1", "A2"
Ids == {<<65, 49>>, <<65, 50>>}

\* "hi", "ho"
Texts == {<<104, 105>>, <<104, 111>>}

\* absent title, empty title, "T"
Titles == {None, <<>>, <<84>>}

\* (providers_id, lang_to, lang_from): ("p1","es","en") and ("p2","fr","de")
Metas == {<<<<112, 49>>, <<101, 115>>, <<101, 110>>>>,
          <<<<112, 50>>, <<102, 114>>, <<100, 101>>>>}

Statuses == {"new", "pending"}

\* "deadbeef"
DeadBeef == <<100, 101, 97, 100, 98, 101, 101, 102>>

-----------------------------------------------------------------------------
(* Pure functions of the handler *)

\* repr() of a str or of None, as str(dict) prints a value
Repr(v) == IF v = None THEN <<78, 111, 110, 101>> ELSE <<39>> \o v \o <<39>>

\* str({"text": ..., "id": ...}): {'text': <text>, 'id': <id>}
StrOfData(data) ==
    <<123, 39, 116, 101, 120, 116, 39, 58, 32>> \o Repr(data.text)
        \o <<44, 32, 39, 105, 100, 39, 58, 32>> \o Repr(data.id) \o <<125>>

Pow256(n) == 256 ^ n

\* stand-in for the SHA-256 compression: a rolling hash of the message bytes,
\* kept to DigestLen bytes
HashState(msg) ==
    LET h[i \in 0..Len(msg)] ==
            IF i = 0 THEN 7 ELSE (h[i - 1] * 31 + msg[i]) % Pow256(DigestLen)
    IN  h[Len(msg)]

\* hashlib.sha256(msg).digest(): DigestLen raw bytes, big-endian
sha256_digest(msg) ==
    [i \in 1..DigestLen |->
        (HashState(msg) \div Pow256(DigestLen - i)) % 256]

\* the digests of the records the model hashes, computed once
DigestTable ==
    [data \in [text : Texts, id : Ids] |-> sha256_digest(StrOfData(data))]

compute_checksum(data) == DigestTable[data]

HexDigit(n) == IF n < 10 THEN 48 + n ELSE 87 + n

\* bytes.hex(): two lowercase hex characters per byte
Hex(bytes) ==
    [i \in 1..(2 * Len(bytes)) |->
        IF i % 2 = 1 THEN HexDigit(bytes[(i + 1) \div 2] \div 16)
                     ELSE HexDigit(bytes[i \div 2] % 16)]

translated_data(body) == [text |-> body.text, id |-> body.id]

\* variant: any checksum the caller supplies is accepted
ChecksumMatchesLax(body) == body.checksum # None

\* variant: a supplied title takes part in the digest
ChecksumMatchesOverTitle(body) ==
    body.checksum =
        Hex(sha256_digest(StrOfData(translated_data(body))
                          \o (IF body.title # None /\ body.title # <<>>
                              THEN body.title ELSE <<>>)))

ChecksumMatches(body) == body.checksum = Hex(compute_checksum(translated_data(body)))

\* Python truthiness of an optional string
Truthy(v) == v # None /\ v # <<>>

Quote(s) == <<34>> \o s \o <<34>>

\* json.dumps(loaded): {"title": "T", "text": "hi"} or {"text": "hi"}
json_dumps_loaded(body) ==
    IF Truthy(body.title)
    THEN <<123>> \o Quote(<<116, 105, 116, 108, 101>>) \o <<58, 32>> \o Quote(body.title)
             \o <<44, 32>> \o Quote(<<116, 101, 120, 116>>) \o <<58, 32>> \o Quote(body.text)
             \o <<125>>
    ELSE <<123>> \o Quote(<<116, 101, 120, 116>>) \o <<58, 32>> \o Quote(body.text)
             \o <<125>>

-----------------------------------------------------------------------------
(* Response envelopes *)

CorsHeaders ==
    ("Access-Control-Allow-Origin" :> "*") @@ ("Access-Control-Allow-Methods" :> "GET,OPTIONS")

log_err(errmsg) ==
    [body |-> errmsg, headers |-> CorsHeaders, statusCode |-> 400,
     isBase64Encoded |-> "false"]

MismatchResponse ==
    [statusCode |-> 500, headers |-> CorsHeaders,
     body |-> "Data corruption. Checksums are not the same."]

AlreadyExistsResponse ==
    [statusCode |-> 200, headers |-> CorsHeaders,
     body |-> "Article translation already exists.", isBase64Encoded |-> "false"]

InsertFailureResponse == ("[ERROR]" :> "insert failed")

UpdateFailureResponse == log_err("[ERROR]: Cannot execute update statement.")

QueryFailureResponse == log_err("[ERROR]: Cannot execute INSERT statement.")

ConnectFailureResponse ==
    log_err("[ERROR]: Cannot connect to the database from the handler.")

SuccessResponse ==
    [body |-> "Data inserted successfully", headers |-> CorsHeaders,
     statusCode |-> 200, isBase64Encoded |-> "false"]

NoResponse == [none |-> TRUE]

-----------------------------------------------------------------------------
(* Inbound events *)

\* the checksums a caller sends with (id, text): the right one, a wrong one,
\* none at all
CallerChecksums(data) == {Hex(compute_checksum(data)), DeadBeef, None}

Bodies ==
    UNION {
        {[id |-> d.id, text |-> d.text, title |-> ti, checksum |-> c,
          providers_id |-> m[1], lang_to |-> m[2], lang_from |-> m[3]] :
            ti \in Titles, m \in Metas, c \in CallerChecksums(d)} :
        d \in [text : Texts, id : Ids]}

NoBody == [id |-> None, text |-> None, title |-> None, checksum |-> None,
           providers_id |-> None, lang_to |-> None, lang_from |-> None]

\* kind "missing": the event has no body key; "garbage": the body is not
\* JSON; "array": the body is JSON but not an object; "object": a JSON object
Events ==
    {[kind |-> k, body |-> NoBody] : k \in {"missing", "garbage", "array"}}
        \cup {[kind |-> "object", body |-> b] : b \in Bodies}

NoEvent == [kind |-> "none", body |-> NoBody]

-----------------------------------------------------------------------------
(* The store *)

\* the key the upsert collides on
UniqueKey(row) == row.text_id

\* variant: the duplicate check keyed on text_id alone
DuplicateCountByIdOnly(rows, id, checksum) ==
    Cardinality({r \in rows : r.text_id = id})

\* SELECT COUNT(*) FROM translations WHERE text_id = %s AND checksum = %s
DuplicateCount(rows, id, checksum) ==
    Cardinality({r \in rows : r.text_id = id /\ r.checksum = checksum})

\* the tuple bound to the INSERT statement
InsertValues(body, checksum) ==
    [text_id |-> body.id, content |-> json_dumps_loaded(body),
     providers_id |-> body.providers_id, lang_to |-> body.lang_to,
     lang_from |-> body.lang_from, checksum |-> Hex(checksum)]

\* variant: a plain INSERT into a table without a unique key
UpsertNoKey(rows, row) == rows \cup {row}

\* INSERT ... ON DUPLICATE KEY UPDATE: every column takes the new value
Upsert(rows, row) ==
    {r \in rows : UniqueKey(r) # UniqueKey(row)} \cup {row}

\* variant: the status update matches no record
UpdateStatusNoMatch(table, id) == table

\* UPDATE HighTimes SET status = 'pending' WHERE id = %s
UpdateStatus(table, id) ==
    [i \in DOMAIN table |-> IF i = id THEN "pending" ELSE table[i]]

-----------------------------------------------------------------------------
(* The dashboard, Translator_Dashboard/app.py: one browser and its cookies *)

\* Length(min=4, max=20) of LoginForm.username
UsernameMin == 4
UsernameMax == 20

\* Length(min=8, max=20) of LoginForm.password
PasswordMin == 8
PasswordMax == 20

Reverse(s) == [i \in 1..Len(s) |-> s[Len(s) + 1 - i]]

\* bcrypt.generate_password_hash: the "$2b$" prefix and a scrambling of the
\* password, never the password itself
generate_password_hash(password) == <<36, 50, 98, 36>> \o Reverse(password)

\* bcrypt.check_password_hash(user.password, form.password.data)
check_password_hash(pw_hash, password) == pw_hash = generate_password_hash(password)

\* "anna", "bert", "carl" (no such user), "al" (too short)
Usernames == {<<97, 110, 110, 97>>, <<98, 101, 114, 116>>, <<99, 97, 114, 108>>,
              <<97, 108>>}

\* "annapass", "bertpass", "pw" (too short)
Passwords == {<<97, 110, 110, 97, 112, 97, 115, 115>>,
              <<98, 101, 114, 116, 112, 97, 115, 115>>, <<112, 119>>}

\* the rows of the User table
Users ==
    {[id |-> 1, username |-> <<97, 110, 110, 97>>,
      password |-> generate_password_hash(<<97, 110, 110, 97, 112, 97, 115, 115>>)],
     [id |-> 2, username |-> <<98, 101, 114, 116>>,
      password |-> generate_password_hash(<<98, 101, 114, 116, 112, 97, 115, 115>>)]}

\* no user id in the session cookie, no remember cookie
NoUser == 0

\* the fields a browser posts to "/"; csrf: the form's token is valid
LoginForms == [username : Usernames, password : Passwords,
               remember : BOOLEAN, csrf : BOOLEAN]

NoForm == [username |-> None, password |-> None, remember |-> FALSE, csrf |-> FALSE]

Routes == {"/", "/dashboard", "/translations", "/logout"}

HttpRequests ==
    {[route |-> r, method |-> m, form |-> NoForm] :
        r \in Routes \ {"/"}, m \in {"GET", "POST"}}
    \cup {[route |-> "/", method |-> "GET", form |-> NoForm]}
    \cup {[route |-> "/", method |-> "POST", form |-> f] : f \in LoginForms}

NoRequest == [route |-> "none", method |-> "none", form |-> NoForm]

\* FlaskForm.validate_on_submit(): a POST whose token and fields validate
validate_on_submit(rq) ==
    /\ rq.method = "POST"
    /\ rq.form.csrf
    /\ rq.form.username # None /\ rq.form.password # None
    /\ Len(rq.form.username) >= UsernameMin /\ Len(rq.form.username) <= UsernameMax
    /\ Len(rq.form.password) >= PasswordMin /\ Len(rq.form.password) <= PasswordMax

\* User.query.filter_by(username=...).first(); username is unique
UsersNamed(username) == {u \in Users : u.username = username}

\* flask_login's current_user: the user of the session cookie, or else the
\* user of the remember cookie, through load_user
CurrentUser ==
    IF session # NoUser /\ \E u \in Users : u.id = session THEN session
    ELSE IF remember # NoUser /\ \E u \in Users : u.id = remember THEN remember
    ELSE NoUser

Authenticated == CurrentUser # NoUser

\* login_manager.unauthorized(): redirect to login_view with the page asked for
Unauthorized(route) == <<"302", "/", route>>

DashStart ==
    /\ session = NoUser
    /\ remember = NoUser
    /\ httpRequest = NoRequest
    /\ httpReply = <<"none">>
    /\ flashed = "none"

\* the view login
Login(rq) ==
    /\ rq.route = "/"
    /\ httpRequest' = rq
    /\ IF validate_on_submit(rq)
       THEN IF UsersNamed(rq.form.username) = {}
            THEN /\ flashed' = "User does not exist. Please contact admin."
                 /\ httpReply' = <<"200", "login.html">>
                 /\ UNCHANGED <<session, remember>>
            ELSE LET user == CHOOSE u \in UsersNamed(rq.form.username) : TRUE
                 IN  IF check_password_hash(user.password, rq.form.password)
                     THEN /\ session' = user.id
                          /\ remember' = IF rq.form.remember THEN user.id ELSE remember
                          /\ httpReply' = <<"302", "/dashboard">>
                          /\ UNCHANGED flashed
                     ELSE /\ flashed' =
                               "Login Unsuccessful. Please check username and password"
                          /\ httpReply' = <<"200", "login.html">>
                          /\ UNCHANGED <<session, remember>>
       ELSE /\ httpReply' = <<"200", "login.html">>
            /\ UNCHANGED <<session, remember, flashed>>
    /\ UNCHANGED handlerVars

\* variant: the view dashboard without login_required
DashboardUngated(rq) ==
    /\ rq.route = "/dashboard"
    /\ httpRequest' = rq
    /\ session' = CurrentUser
    /\ httpReply' = <<"200", "index.html">>
    /\ UNCHANGED <<remember, flashed>>
    /\ UNCHANGED handlerVars

\* the view dashboard, under login_required
Dashboard(rq) ==
    /\ rq.route = "/dashboard"
    /\ httpRequest' = rq
    /\ IF Authenticated
       THEN /\ session' = CurrentUser
            /\ httpReply' = <<"200", "index.html">>
            /\ UNCHANGED <<remember, flashed>>
       ELSE /\ httpReply' = Unauthorized("/dashboard")
            /\ flashed' = "Please log in to access this page."
            /\ UNCHANGED <<session, remember>>
    /\ UNCHANGED handlerVars

\* the view translations, under login_required
Translations(rq) ==
    /\ rq.route = "/translations"
    /\ httpRequest' = rq
    /\ IF Authenticated
       THEN /\ session' = CurrentUser
            /\ httpReply' = <<"200", "final.html">>
            /\ UNCHANGED <<remember, flashed>>
       ELSE /\ httpReply' = Unauthorized("/translations")
            /\ flashed' = "Please log in to access this page."
            /\ UNCHANGED <<session, remember>>
    /\ UNCHANGED handlerVars

\* the view logout: logout_user() drops the session's user and the remember
\* cookie
Logout(rq) ==
    /\ rq.route = "/logout"
    /\ httpRequest' = rq
    /\ IF Authenticated
       THEN /\ session' = NoUser
            /\ remember' = NoUser
            /\ httpReply' = <<"302", "/">>
            /\ UNCHANGED flashed
       ELSE /\ httpReply' = Unauthorized("/logout")
            /\ flashed' = "Please log in to access this page."
            /\ UNCHANGED <<session, remember>>
    /\ UNCHANGED handlerVars

\* the browser is closed: the session cookie goes, the remember cookie stays
BrowserRestart ==
    /\ session # NoUser
    /\ session' = NoUser
    /\ httpRequest' = NoRequest
    /\ httpReply' = <<"none">>
    /\ flashed' = "none"
    /\ UNCHANGED remember
    /\ UNCHANGED handlerVars

\* REMEMBER_COOKIE_DURATION has passed
RememberExpires ==
    /\ remember # NoUser
    /\ remember' = NoUser
    /\ UNCHANGED <<session, httpRequest, httpReply, flashed>>
    /\ UNCHANGED handlerVars

NextDash ==
    \/ \E rq \in HttpRequests : Login(rq)
    \/ \E rq \in HttpRequests : Dashboard(rq)
    \/ \E rq \in HttpRequests : Translations(rq)
    \/ \E rq \in HttpRequests : Logout(rq)
    \/ BrowserRestart
    \/ RememberExpires

-----------------------------------------------------------------------------
(* One invocation of handler *)

\* the value the duplicate check binds for the checksum column
SelectChecksum(body) == compute_checksum(translated_data(body))

\* the row carries the caller's hex checksum c, as raw bytes or as hex text
CarriesChecksum(r, c) == r.checksum = c \/ Hex(r.checksum) = c

\* what the store holds for the id of an arriving request: no row
\* ("absent"), a row with another checksum ("other"), a row with the request's
\* checksum written by an invocation that returned success ("same") or by one
\* that did not ("unconfirmed")
StoreAtEntry(rows, done, ev) ==
    IF ev.kind # "object" \/ ~\E r \in rows : r.text_id = ev.body.id
    THEN "absent"
    ELSE IF ~\E r \in rows : r.text_id = ev.body.id /\ CarriesChecksum(r, ev.body.checksum)
         THEN "other"
         ELSE IF ev.body.id \in done THEN "same" ELSE "unconfirmed"

\* variant: the connection is not closed on exit
FinallyNoClose(c) == c

\* finally: cnx.close(), any error of it swallowed (cnx may be unbound)
Finally(c) == IF c = "open" THEN "closed" ELSE c

Exit(p, resp) ==
    /\ pc' = [pc EXCEPT ![p] = "done"]
    /\ response' = [response EXCEPT ![p] = resp]
    /\ cnx' = [cnx EXCEPT ![p] = Finally(cnx[p])]

Sequential == \A q \in Procs : pc[q] = "idle"

Init ==
    /\ pc = [p \in Procs |-> "idle"]
    /\ req = [p \in Procs |-> NoEvent]
    /\ cnx = [p \in Procs |-> "unbound"]
    /\ response = [p \in Procs |-> NoResponse]
    /\ atEntry = [p \in Procs |-> "absent"]
    /\ passedOnEmpty = [p \in Procs |-> FALSE]
    /\ ingested = {}
    /\ translations = {}
    /\ HighTimes = [i \in Ids |-> "new"]
    /\ DashStart

\* the host calls handler(event, context); body = json.loads(event["body"])
\* runs outside the try statement
Invoke(p, ev) ==
    /\ pc[p] = "idle"
    /\ req' = [req EXCEPT ![p] = ev]
    /\ atEntry' = [atEntry EXCEPT ![p] = StoreAtEntry(translations, ingested, ev)]
    /\ pc' = [pc EXCEPT ![p] =
                 IF ev.kind \in {"missing", "garbage"} THEN "raised" ELSE "checksum"]
    /\ UNCHANGED <<cnx, response, ingested, translations, HighTimes, passedOnEmpty>>
    /\ UNCHANGED dashVars

\* variant: the connection is made before the checksum is compared, so a
\* mismatching request leaves through finally with a connection to close
VerifyChecksumConnected(p) ==
    /\ pc[p] = "checksum"
    /\ IF req[p].kind # "object"
       THEN Exit(p, ConnectFailureResponse)
       ELSE IF ~ChecksumMatches(req[p].body)
            THEN /\ pc' = [pc EXCEPT ![p] = "done"]
                 /\ response' = [response EXCEPT ![p] = MismatchResponse]
                 /\ cnx' = [cnx EXCEPT ![p] = "closed"]
            ELSE /\ pc' = [pc EXCEPT ![p] = "connect"]
                 /\ UNCHANGED <<cnx, response>>
    /\ UNCHANGED <<req, atEntry, ingested, translations, HighTimes, passedOnEmpty>>
    /\ UNCHANGED dashVars

\* translated_data, compute_checksum and the comparison with body.checksum
VerifyChecksum(p) ==
    /\ pc[p] = "checksum"
    /\ IF req[p].kind # "object"
       THEN Exit(p, ConnectFailureResponse)
       ELSE IF ~ChecksumMatches(req[p].body)
            THEN Exit(p, MismatchResponse)
            ELSE /\ pc' = [pc EXCEPT ![p] = "connect"]
                 /\ UNCHANGED <<cnx, response>>
    /\ UNCHANGED <<req, atEntry, ingested, translations, HighTimes, passedOnEmpty>>
    /\ UNCHANGED dashVars

ConnectOutcomes == {"ok", "secret_fault", "token_fault", "connect_fault"}

\* variant: a failure of make_connection is swallowed and the handler goes on
ConnectSwallowsFault(p, outcome) ==
    /\ pc[p] = "connect"
    /\ cnx' = [cnx EXCEPT ![p] = IF outcome = "ok" THEN "open" ELSE cnx[p]]
    /\ pc' = [pc EXCEPT ![p] = "cursor"]
    /\ UNCHANGED <<response, req, atEntry, ingested, translations, HighTimes, passedOnEmpty>>
    /\ UNCHANGED dashVars

\* cnx = db.make_connection()
Connect(p, outcome) ==
    /\ pc[p] = "connect"
    /\ IF outcome = "ok"
       THEN /\ cnx' = [cnx EXCEPT ![p] = "open"]
            /\ pc' = [pc EXCEPT ![p] = "cursor"]
            /\ UNCHANGED response
       ELSE Exit(p, ConnectFailureResponse)
    /\ UNCHANGED <<req, atEntry, ingested, translations, HighTimes, passedOnEmpty>>
    /\ UNCHANGED dashVars

\* cursor = cnx.cursor()
Cursor(p, ok) ==
    /\ pc[p] = "cursor"
    /\ IF ok
       THEN /\ pc' = [pc EXCEPT ![p] = "select"]
            /\ UNCHANGED <<cnx, response>>
       ELSE Exit(p, ConnectFailureResponse)
    /\ UNCHANGED <<req, atEntry, ingested, translations, HighTimes, passedOnEmpty>>
    /\ UNCHANGED dashVars

\* variant: a failed duplicate check is retried on a fresh cursor
SelectRetries(p, ok) ==
    /\ pc[p] = "select"
    /\ IF ~ok
       THEN /\ pc' = [pc EXCEPT ![p] = "cursor"]
            /\ UNCHANGED <<cnx, response, passedOnEmpty>>
       ELSE IF DuplicateCount(translations, req[p].body.id,
                              SelectChecksum(req[p].body)) > 0
            THEN Exit(p, AlreadyExistsResponse) /\ UNCHANGED passedOnEmpty
            ELSE /\ pc' = [pc EXCEPT ![p] = "insert"]
                 /\ passedOnEmpty' =
                        [passedOnEmpty EXCEPT ![p] =
                            ~\E r \in translations : r.text_id = req[p].body.id]
                 /\ UNCHANGED <<cnx, response>>
    /\ UNCHANGED <<req, atEntry, ingested, translations, HighTimes>>
    /\ UNCHANGED dashVars

\* the duplicate check
Select(p, ok) ==
    /\ pc[p] = "select"
    /\ IF ~ok
       THEN Exit(p, QueryFailureResponse) /\ UNCHANGED passedOnEmpty
       ELSE IF DuplicateCount(translations, req[p].body.id,
                              SelectChecksum(req[p].body)) > 0
            THEN Exit(p, AlreadyExistsResponse) /\ UNCHANGED passedOnEmpty
            ELSE /\ pc' = [pc EXCEPT ![p] = "insert"]
                 /\ passedOnEmpty' =
                        [passedOnEmpty EXCEPT ![p] =
                            ~\E r \in translations : r.text_id = req[p].body.id]
                 /\ UNCHANGED <<cnx, response>>
    /\ UNCHANGED <<req, atEntry, ingested, translations, HighTimes>>
    /\ UNCHANGED dashVars

\* variant: a failed upsert is swallowed and the handler goes on
InsertSwallowsFailure(p, ok) ==
    /\ pc[p] = "insert"
    /\ IF ~ok
       THEN /\ pc' = [pc EXCEPT ![p] = "update"]
            /\ UNCHANGED <<translations, ingested, cnx, response>>
       ELSE /\ ingested' = ingested \ {req[p].body.id}
            /\ translations' =
                   Upsert(translations,
                          InsertValues(req[p].body,
                                       compute_checksum(translated_data(req[p].body))))
            /\ pc' = [pc EXCEPT ![p] = "update"]
            /\ UNCHANGED <<cnx, response>>
    /\ UNCHANGED <<req, atEntry, HighTimes, passedOnEmpty>>
    /\ UNCHANGED dashVars

\* the upsert
Insert(p, ok) ==
    /\ pc[p] = "insert"
    /\ IF ~ok
       THEN /\ Exit(p, InsertFailureResponse)
            /\ UNCHANGED <<translations, ingested>>
       ELSE /\ ingested' = ingested \ {req[p].body.id}
            /\ translations' =
                   Upsert(translations,
                          InsertValues(req[p].body,
                                       compute_checksum(translated_data(req[p].body))))
            /\ pc' = [pc EXCEPT ![p] = "update"]
            /\ UNCHANGED <<cnx, response>>
    /\ UNCHANGED <<req, atEntry, HighTimes, passedOnEmpty>>
    /\ UNCHANGED dashVars

\* variant: a failed status update takes the translation row back
UpdateWithRollback(p, ok) ==
    /\ pc[p] = "update"
    /\ IF ~ok
       THEN /\ Exit(p, UpdateFailureResponse)
            /\ translations' = {r \in translations : r.text_id # req[p].body.id}
            /\ UNCHANGED <<HighTimes, ingested>>
       ELSE /\ HighTimes' = UpdateStatus(HighTimes, req[p].body.id)
            /\ ingested' = ingested \cup {req[p].body.id}
            /\ Exit(p, SuccessResponse)
            /\ UNCHANGED translations
    /\ UNCHANGED <<req, atEntry, passedOnEmpty>>
    /\ UNCHANGED dashVars

\* the status update, then the success envelope
Update(p, ok) ==
    /\ pc[p] = "update"
    /\ IF ~ok
       THEN /\ Exit(p, UpdateFailureResponse)
            /\ UNCHANGED <<HighTimes, ingested>>
       ELSE /\ HighTimes' = UpdateStatus(HighTimes, req[p].body.id)
            /\ ingested' = ingested \cup {req[p].body.id}
            /\ Exit(p, SuccessResponse)
    /\ UNCHANGED <<req, atEntry, translations, passedOnEmpty>>
    /\ UNCHANGED dashVars

\* the host takes the envelope (or the escaped exception) and frees the slot
Respond(p) ==
    /\ pc[p] \in {"done", "raised"}
    /\ pc' = [pc EXCEPT ![p] = "idle"]
    /\ req' = [req EXCEPT ![p] = NoEvent]
    /\ cnx' = [cnx EXCEPT ![p] = "unbound"]
    /\ response' = [response EXCEPT ![p] = NoResponse]
    /\ atEntry' = [atEntry EXCEPT ![p] = "absent"]
    /\ passedOnEmpty' = [passedOnEmpty EXCEPT ![p] = FALSE]
    /\ UNCHANGED <<ingested, translations, HighTimes>>
    /\ UNCHANGED dashVars

\* another owner of the source record moves its status
OwnerSetStatus(id, s) ==
    /\ HighTimes[id] # s
    /\ HighTimes' = [HighTimes EXCEPT ![id] = s]
    /\ UNCHANGED <<pc, req, cnx, response, atEntry, ingested, translations, passedOnEmpty>>
    /\ UNCHANGED dashVars

Next ==
    \/ \E p \in Procs, ev \in Events : Sequential /\ Invoke(p, ev)
    \/ \E p \in Procs : VerifyChecksum(p)
    \/ \E p \in Procs, outcome \in ConnectOutcomes : Connect(p, outcome)
    \/ \E p \in Procs, ok \in BOOLEAN : Cursor(p, ok)
    \/ \E p \in Procs, ok \in BOOLEAN : Select(p, ok)
    \/ \E p \in Procs, ok \in BOOLEAN : Insert(p, ok)
    \/ \E p \in Procs, ok \in BOOLEAN : Update(p, ok)
    \/ \E p \in Procs : Respond(p)
    \/ \E id \in Ids, s \in Statuses : OwnerSetStatus(id, s)

Spec == Init /\ [][Next]_vars

-----------------------------------------------------------------------------
(* Two invocations at once: the host runs handler in two slots that share
   the store and nothing else *)

RaceProcs == {"h1", "h2"}

\* well-formed requests for one source record
RaceEvents ==
    {ev \in Events :
        /\ ev.kind = "object"
        /\ ev.body.id = <<65, 49>>
        /\ ev.body.title = None
        /\ ChecksumMatches(ev.body)}

InitRace ==
    /\ pc = [p \in RaceProcs |-> "idle"]
    /\ req = [p \in RaceProcs |-> NoEvent]
    /\ cnx = [p \in RaceProcs |-> "unbound"]
    /\ response = [p \in RaceProcs |-> NoResponse]
    /\ atEntry = [p \in RaceProcs |-> "absent"]
    /\ passedOnEmpty = [p \in RaceProcs |-> FALSE]
    /\ ingested = {}
    /\ translations = {}
    /\ HighTimes = [i \in Ids |-> "new"]
    /\ DashStart

NextRace ==
    \/ \E p \in RaceProcs, ev \in RaceEvents : Invoke(p, ev)
    \/ \E p \in RaceProcs : VerifyChecksum(p)
    \/ \E p \in RaceProcs, outcome \in ConnectOutcomes : Connect(p, outcome)
    \/ \E p \in RaceProcs, ok \in BOOLEAN : Cursor(p, ok)
    \/ \E p \in RaceProcs, ok \in BOOLEAN : Select(p, ok)
    \/ \E p \in RaceProcs, ok \in BOOLEAN : Insert(p, ok)
    \/ \E p \in RaceProcs, ok \in BOOLEAN : Update(p, ok)
    \/ \E p \in RaceProcs : Respond(p)

SpecRace == InitRace /\ [][NextRace]_vars

\* the dashboard on its own
SpecDash == Init /\ [][NextDash]_vars

TypeOK ==
    /\ pc \in [Procs -> {"idle", "checksum", "connect", "cursor", "select",
                         "insert", "update", "done", "raised"}]
    /\ cnx \in [Procs -> {"unbound", "open", "closed"}]
    /\ HighTimes \in [Ids -> Statuses]
    /\ ingested \subseteq Ids
    /\ \A r \in translations : r.text_id \in Ids

-----------------------------------------------------------------------------
(* Properties *)

\* p takes a step of its invocation
Steps(p) == pc[p] # "idle" /\ pc'[p] # pc[p]

\* the envelopes that report a fault of the credential provider or the store
FaultResponses ==
    {ConnectFailureResponse, QueryFailureResponse, InsertFailureResponse,
     UpdateFailureResponse}

\* the request of p is a JSON object whose checksum is the hex digest of its
\* {text, id}
ValidRequest(p) ==
    /\ req[p].kind = "object"
    /\ req[p].body.checksum = Hex(compute_checksum(translated_data(req[p].body)))

\* the request of p is a JSON object whose checksum differs from that digest
MismatchRequest(p) ==
    /\ req[p].kind = "object"
    /\ req[p].body.checksum # Hex(compute_checksum(translated_data(req[p].body)))

RowsOf(rows, id) == {r \in rows : r.text_id = id}

\* sub occurs in s
IsInfix(sub, s) ==
    \E i \in 1..Len(s) :
        i + Len(sub) - 1 <= Len(s) /\ SubSeq(s, i, i + Len(sub) - 1) = sub

\* C1: Idempotent retry. A valid request that arrives when the store already
\* holds its (id, checksum) from an invocation that returned success, and
\* meets no fault, ends in the already-exists
\* envelope (status 200, not the fresh-insert envelope), and the store then
\* holds exactly one row matching (text_id, checksum).
C1_IdempotentRetry ==
    \A p \in Procs :
        (/\ pc[p] = "done"
         /\ ValidRequest(p)
         /\ atEntry[p] = "same"
         /\ response[p] \notin FaultResponses)
        => /\ response[p] = AlreadyExistsResponse
           /\ response[p] # SuccessResponse
           /\ Cardinality({r \in translations :
                              /\ r.text_id = req[p].body.id
                              /\ CarriesChecksum(r, req[p].body.checksum)}) = 1

\* C2: Checksum mismatch leaves the store untouched. An invocation whose
\* body.checksum differs from the hex digest of {text, id} returns status 500
\* at the checksum comparison and none of its steps changes translations or
\* HighTimes.
C2_MismatchLeavesStoreUntouched ==
    [][\A p \in Procs :
          (Steps(p) /\ MismatchRequest(p))
          => /\ translations' = translations
             /\ HighTimes' = HighTimes
             /\ pc[p] = "checksum" => /\ pc'[p] = "done"
                                      /\ response'[p].statusCode = 500
                                      /\ response'[p] = MismatchResponse
             /\ pc[p] \in {"checksum", "done"}]_vars

C2_Witness ==
    \E p \in Procs :
        /\ pc[p] = "done"
        /\ MismatchRequest(p)
        /\ response[p] = MismatchResponse
        /\ RowsOf(translations, req[p].body.id) # {}

\* C3: Partial failure visibility. When the status update fails after the
\* upsert of the same invocation succeeded, the failing step changes neither
\* table, the row the upsert wrote is still in translations, the response is
\* the update-failure envelope with status 400, and no earlier step of the
\* invocation changed HighTimes.
C3_PartialFailureVisible ==
    [][\A p \in Procs :
          /\ (Steps(p) /\ HighTimes' # HighTimes)
             => (pc[p] = "update" /\ response'[p] = SuccessResponse)
          /\ (Steps(p) /\ pc[p] = "update" /\ response'[p] # SuccessResponse)
             => /\ translations' = translations
                /\ HighTimes' = HighTimes
                /\ \E r \in translations' :
                      /\ r.text_id = req[p].body.id
                      /\ CarriesChecksum(r, req[p].body.checksum)
                      /\ IsInfix(Quote(req[p].body.text), r.content)
                /\ response'[p] = UpdateFailureResponse
                /\ response'[p].statusCode = 400]_vars

C3_Witness ==
    \E p \in Procs :
        /\ pc[p] = "done"
        /\ response[p] = UpdateFailureResponse
        /\ HighTimes[req[p].body.id] # "pending"
        /\ RowsOf(translations, req[p].body.id) # {}

\* C4: Connection release on every exit path. Once handler has returned or
\* raised, no connection of that invocation is open.
C4_ConnectionReleased ==
    \A p \in Procs : pc[p] \in {"done", "raised"} => cnx[p] # "open"

\* a failure after the connection was opened and before any query ran
C4_Witness ==
    \E p \in Procs :
        /\ pc[p] = "done"
        /\ cnx[p] = "closed"
        /\ response[p] = ConnectFailureResponse

\* C5: No failure escapes the invocation. Every invocation completes with a
\* response envelope; no exception reaches the host.
C5_NoFailureEscapes ==
    \A p \in Procs : pc[p] # "raised"
\* C6: Fixed envelope. Every response handler returns has a statusCode among
\* 200, 400 and 500, a body, and the two cross-origin headers.
C6_FixedEnvelope ==
    \A p \in Procs :
        pc[p] = "done"
        => /\ {"statusCode", "body", "headers"} \subseteq DOMAIN response[p]
           /\ response[p].statusCode \in {200, 400, 500}
           /\ response[p].headers = CorsHeaders

\* the row r carries what the request of p submitted
CarriesSubmitted(r, p) ==
    /\ r.text_id = req[p].body.id
    /\ IsInfix(Quote(req[p].body.text), r.content)
    /\ Truthy(req[p].body.title) => IsInfix(Quote(req[p].body.title), r.content)
    /\ r.providers_id = req[p].body.providers_id
    /\ r.lang_to = req[p].body.lang_to
    /\ r.lang_from = req[p].body.lang_from

\* C7: Successful ingestion post-state. When handler returns the
\* fresh-insert envelope (200, "Data inserted successfully"), translations
\* holds a row for the request's id with the submitted content, provider and
\* languages, and the source record of that id has status "pending".
C7_SuccessPostState ==
    [][\A p \in Procs :
          (Steps(p) /\ pc'[p] = "done" /\ response'[p] = SuccessResponse)
          => /\ \E r \in translations' : CarriesSubmitted(r, p)
             /\ HighTimes'[req[p].body.id] = "pending"]_vars

C7_Witness ==
    \E p \in Procs :
        /\ pc[p] = "done"
        /\ response[p] = SuccessResponse
        /\ response[p].statusCode = 200
        /\ HighTimes[req[p].body.id] = "pending"
        /\ \E r \in translations : CarriesSubmitted(r, p)

\* C8: Upsert overwrite. A valid request that arrives when translations holds
\* a row for its id with another checksum is not stopped by the duplicate
\* check; its upsert leaves exactly one row for that text_id, holding the
\* request's content, providers_id, lang_to, lang_from and checksum.
C8_UpsertOverwrite ==
    [][\A p \in Procs :
          (Steps(p) /\ atEntry[p] = "other" /\ ValidRequest(p))
          => /\ (pc[p] = "select" /\ response'[p] # QueryFailureResponse)
                => pc'[p] = "insert"
             /\ (pc[p] = "insert" /\ response'[p] # InsertFailureResponse)
                => /\ pc'[p] = "update"
                   /\ Cardinality(RowsOf(translations', req[p].body.id)) = 1
                   /\ \A r \in RowsOf(translations', req[p].body.id) :
                         /\ CarriesSubmitted(r, p)
                         /\ CarriesChecksum(r, req[p].body.checksum)]_vars

C8_Witness ==
    \E p \in Procs :
        /\ pc[p] = "update"
        /\ ValidRequest(p)
        /\ atEntry[p] = "other"
        /\ \A r \in RowsOf(translations, req[p].body.id) :
              CarriesSubmitted(r, p) /\ CarriesChecksum(r, req[p].body.checksum)

\* C9: A retry does not re-apply the effects. An invocation that arrives when
\* translations already holds its (id, checksum), written by an invocation
\* that returned success, executes neither the upsert nor the status update,
\* and none of its steps changes translations or HighTimes.
C9_RetryWritesNothing ==
    [][\A p \in Procs :
          (Steps(p) /\ atEntry[p] = "same")
          => /\ ~(pc[p] = "insert" /\ pc'[p] = "update")
             /\ ~(pc[p] = "update" /\ response'[p] = SuccessResponse)
             /\ translations' = translations
             /\ HighTimes' = HighTimes]_vars

\* C10: Stored checksum representation. The checksum of every row of
\* translations is the binary digest of the row's text_id and of the text
\* its content carries, and a row an invocation has just written carries the
\* value its duplicate check bound.
C10_StoredChecksumIsDigest ==
    /\ \A r \in translations :
          \E t \in Texts :
              /\ IsInfix(Quote(t), r.content)
              /\ r.checksum = sha256_digest(StrOfData([text |-> t, id |-> r.text_id]))
    /\ \A p \in Procs :
          pc[p] = "update"
          => \E r \in translations :
                 /\ r.text_id = req[p].body.id
                 /\ r.checksum = SelectChecksum(req[p].body)
\* C11: Insert failure aborts before the status update. An invocation
\* reaches the status update only from its own upsert, with the row that
\* upsert wrote in translations; when the upsert fails the invocation ends
\* with the insert-failure response, neither table changes, and its only
\* further step hands the response to the host.
C11_InsertFailureAborts ==
    [][\A p \in Procs :
          /\ (Steps(p) /\ pc'[p] = "update")
             => /\ pc[p] = "insert"
                /\ \E r \in translations' : CarriesSubmitted(r, p)
          /\ (Steps(p) /\ pc[p] = "insert" /\ pc'[p] # "update")
             => /\ pc'[p] = "done"
                /\ response'[p] = InsertFailureResponse
                /\ translations' = translations
                /\ HighTimes' = HighTimes
          /\ (Steps(p) /\ response[p] = InsertFailureResponse)
             => /\ pc'[p] = "idle"
                /\ HighTimes' = HighTimes]_vars

C11_Witness ==
    \E p \in Procs :
        /\ pc[p] = "done"
        /\ response[p] = InsertFailureResponse
        /\ HighTimes[req[p].body.id] = "new"
        /\ RowsOf(translations, req[p].body.id) = {}

\* C12: Connection failure is surfaced and harmless. When make_connection
\* fails (secret fetch, token generation or connect) the invocation returns
\* the connection-failure envelope with status 400 without changing either
\* table, and no query step is ever taken without an open connection.
C12_ConnectionFailureHarmless ==
    [][\A p \in Procs :
          /\ (Steps(p) /\ pc[p] = "connect")
             => \/ cnx'[p] = "open" /\ pc'[p] = "cursor"
                \/ /\ cnx'[p] = "unbound"
                   /\ pc'[p] = "done"
                   /\ response'[p] = ConnectFailureResponse
                   /\ response'[p].statusCode = 400
                   /\ translations' = translations
                   /\ HighTimes' = HighTimes
          /\ (Steps(p) /\ pc[p] \in {"cursor", "select", "insert", "update"})
             => cnx[p] = "open"]_vars

C12_Witness ==
    \E p \in Procs :
        /\ pc[p] = "done"
        /\ ValidRequest(p)
        /\ cnx[p] = "unbound"
        /\ response[p] = ConnectFailureResponse
\* C13: Strict per-invocation sequence. An invocation moves only forward
\* through checksum check, connection, cursor, duplicate check, upsert and
\* status update, one step each and each only from the step before it; a
\* step that produces a response ends the invocation, and an ended
\* invocation touches neither table and only hands its response back.
StepOrder ==
    [checksum |-> {"connect", "done"},
     connect  |-> {"cursor", "done"},
     cursor   |-> {"select", "done"},
     select   |-> {"insert", "done"},
     insert   |-> {"update", "done"},
     update   |-> {"done"},
     done     |-> {"idle"},
     raised   |-> {"idle"}]

C13_StrictSequence ==
    [][\A p \in Procs :
          Steps(p)
          => /\ pc'[p] \in StepOrder[pc[p]]
             /\ (response'[p] # NoResponse) = (pc'[p] = "done")
             /\ pc[p] \in {"checksum", "connect", "cursor", "select", "done", "raised"}
                => /\ translations' = translations
                   /\ HighTimes' = HighTimes]_vars

C13_Witness ==
    \E p \in Procs :
        /\ pc[p] = "done"
        /\ response[p] = SuccessResponse
        /\ atEntry[p] = "absent"
        /\ cnx[p] = "closed"

\* C14 as stated: Connection before checksum. When the checksum of a
\* request is about to be compared, the connection of that invocation has
\* already been opened.
C14_ConnectionBeforeChecksum ==
    \A p \in Procs :
        (pc[p] = "checksum" /\ req[p].kind = "object") => cnx[p] = "open"

\* C14 amended: Checksum before connection. No connection is acquired while
\* the checksum is still to be compared, and an invocation that has acquired
\* or attempted a connection carries a request whose checksum matched.
C14_ChecksumBeforeConnection ==
    \A p \in Procs :
        /\ pc[p] = "checksum" => cnx[p] = "unbound"
        /\ cnx[p] # "unbound" => ValidRequest(p)
        /\ pc[p] \in {"connect", "cursor", "select", "insert", "update"}
           => ValidRequest(p)
        /\ (pc[p] = "done" /\ response[p] = MismatchResponse) => cnx[p] = "unbound"

C14_Witness ==
    \E p \in Procs :
        /\ pc[p] = "select"
        /\ cnx[p] = "open"
        /\ ValidRequest(p)

\* C15: Title does not affect verification. The outcome of the checksum
\* comparison of a request is the outcome for the same request under every
\* other title, and the digest stored by its upsert is the digest of text
\* and id alone; the stored content holds title and text when a non-empty
\* title was supplied and the text alone otherwise.
TitleKey == <<34, 116, 105, 116, 108, 101, 34, 58>>

C15_TitleIrrelevant ==
    [][\A p \in Procs :
          /\ (Steps(p) /\ pc[p] = "checksum" /\ req[p].kind = "object")
             => \A t \in Titles :
                   ChecksumMatches([req[p].body EXCEPT !.title = t])
                       = (pc'[p] = "connect")
          /\ (Steps(p) /\ pc'[p] = "update")
             => \E r \in RowsOf(translations', req[p].body.id) :
                   /\ LET d == sha256_digest(StrOfData(
                                   [text |-> req[p].body.text, id |-> req[p].body.id]))
                      IN  r.checksum \in {d, Hex(d)}
                   /\ IsInfix(Quote(req[p].body.text), r.content)
                   /\ IF Truthy(req[p].body.title)
                      THEN /\ IsInfix(TitleKey, r.content)
                           /\ IsInfix(Quote(req[p].body.title), r.content)
                      ELSE ~IsInfix(TitleKey, r.content)]_vars

C15_Witness ==
    \E p \in Procs :
        /\ pc[p] = "update"
        /\ Truthy(req[p].body.title)
        /\ \E r \in RowsOf(translations, req[p].body.id) :
              IsInfix(Quote(req[p].body.title), r.content)
\* C16: Known race between invocations. Whatever the other invocation
\* does, an invocation that is past the duplicate check and meets no fault
\* executes the upsert, then the status update, and reports a fresh insert;
\* so two invocations with the same (id, text, checksum) that both passed
\* the check on a store without the row both report a fresh insert. With the
\* unique key on text_id the store never holds more than one row per text_id.
SameTriple(p, q) ==
    /\ req[p].kind = "object" /\ req[q].kind = "object"
    /\ req[p].body.id = req[q].body.id
    /\ req[p].body.text = req[q].body.text
    /\ req[p].body.checksum = req[q].body.checksum

C16_KnownRace ==
    [][/\ \A id \in Ids : Cardinality(RowsOf(translations', id)) <= 1
       /\ \A p \in RaceProcs :
             /\ (Steps(p) /\ pc[p] = "insert" /\ response'[p] \notin FaultResponses)
                => /\ pc'[p] = "update"
                   /\ \E r \in translations' : CarriesSubmitted(r, p)
             /\ (Steps(p) /\ pc[p] = "update" /\ response'[p] \notin FaultResponses)
                => /\ response'[p] = SuccessResponse
                   /\ HighTimes'[req[p].body.id] = "pending"
             /\ \A q \in RaceProcs \ {p} :
                   (/\ pc'[p] = "done" /\ pc'[q] = "done"
                    /\ SameTriple(p, q)
                    /\ passedOnEmpty'[p] /\ passedOnEmpty'[q]
                    /\ response'[p] \notin FaultResponses
                    /\ response'[q] \notin FaultResponses)
                   => /\ response'[p] = SuccessResponse
                      /\ response'[q] = SuccessResponse
                      /\ Cardinality(RowsOf(translations', req[p].body.id)) = 1]_vars

\* both passed the duplicate check before either wrote, and both report a
\* fresh insert
C16_Witness ==
    \E p \in RaceProcs : \E q \in RaceProcs \ {p} :
        /\ pc[p] = "done" /\ pc[q] = "done"
        /\ SameTriple(p, q)
        /\ passedOnEmpty[p] /\ passedOnEmpty[q]
        /\ response[p] = SuccessResponse
        /\ response[q] = SuccessResponse
        /\ Cardinality(RowsOf(translations, req[p].body.id)) = 1
        /\ HighTimes[req[p].body.id] = "pending"
\* C17: Dashboard session gate. index.html, final.html and the redirect of
\* /logout are given only to an authenticated session, and an unauthenticated
\* request for them is sent to the login page; a session passes from
\* unauthenticated to authenticated, or to another user, only by a validated
\* login submission naming an existing user whose stored hash is the hash of
\* the submitted password; after /logout the session is unauthenticated.
LoginSucceeds(rq, id) ==
    /\ rq.route = "/" /\ rq.method = "POST"
    /\ \E u \in Users :
          /\ u.id = id
          /\ u.username = rq.form.username
          /\ u.password = generate_password_hash(rq.form.password)

C17_SessionGate ==
    [][/\ (/\ httpRequest'.route \in {"/dashboard", "/translations", "/logout"}
           /\ httpReply' \in {<<"200", "index.html">>, <<"200", "final.html">>,
                              <<"302", "/">>})
          => Authenticated
       /\ (/\ httpRequest'.route \in {"/dashboard", "/translations", "/logout"}
           /\ ~Authenticated)
          => /\ httpReply' = Unauthorized(httpRequest'.route)
             /\ ~Authenticated'
       /\ (~Authenticated /\ Authenticated')
          => LoginSucceeds(httpRequest', session')
       /\ (Authenticated' /\ CurrentUser' # CurrentUser /\ session' # NoUser)
          => LoginSucceeds(httpRequest', session')
       /\ (httpRequest'.route = "/logout" /\ Authenticated)
          => (httpReply' = <<"302", "/">> /\ ~Authenticated')]_vars

\* a session that logged in and then left through /logout
C17_Witness ==
    /\ httpRequest.route = "/logout"
    /\ httpReply = <<"302", "/">>
    /\ ~Authenticated

====
